---------------------------- MODULE Spec2Model ----------------------------
(***************************************************************************)
(* The compliance engine of src/src/compliance/index.js as a state machine.*)
(*                                                                         *)
(* State: the engine's module map (complianceModules), its enabled list    *)
(* (enabledModules, a JavaScript array whose identity matters: push        *)
(* mutates it in place, filter replaces it), and the checkCompliance calls *)
(* in flight.  A call runs synchronously up to its next `await`, so one    *)
(* action is one such synchronous segment; the configuration operations    *)
(* are synchronous and run between segments.                               *)
(***************************************************************************)
EXTENDS Integers, Sequences, FiniteSets, TLC

VARIABLES
    complianceModules,  \* name -> instance ([class, config, id])
    enabledModules,     \* the engine's current enabled array
    nextId,             \* identity of the next instance `new ModuleClass` makes
    round,              \* call slot -> the state of that checkCompliance call
    lastSet,            \* history: what setModuleEnabled last did to a name
    completion,         \* how the call made in the latest step completed
    analysis,           \* a policy module called on its own: its latest call
    failOnAnyViolation  \* the engine's failOnAnyViolation field

vars == <<complianceModules, enabledModules, nextId, round, lastSet, completion,
          analysis, failOnAnyViolation>>

---------------------------------------------------------------------------
(* Bounds *)

\* longest enabledModules array handed to the constructor
MaxInitLen == 2
\* instances created by configureModule before the model stops reconfiguring
MaxConfigure == 1
\* configuration calls that run while one checkCompliance call is suspended
MaxMidRoundOps == 1

---------------------------------------------------------------------------
(* Names, inputs *)

\* keys of the module map, in the order the constructor inserts them
ModuleNames ==
    <<"cafe", "hipaa", "osha", "gdpr", "attorneyClientPrivilege", "usSanctions">>

\* the registered modules the model carries (a prefix of the module map)
Modules == {ModuleNames[1], ModuleNames[2]}

\* a name no module is registered under
UnknownName == "nosuch"

AllNames == Modules \cup {UnknownName}

\* position of a registered name in the module map
RegistrationIndex(n) == CHOOSE i \in DOMAIN ModuleNames : ModuleNames[i] = n

\* call slots; Spec runs one call at a time in slot 1
RoundIds == {1, 2}

\* (content, context) pairs handed to checkCompliance
Contents == {"plain", "flagged", "notString"}

\* configuration objects handed to a module constructor
Configs == {"default", "custom"}

\* what stands behind a name: a policy module of the repository, or a
\* stand-in installed in its place (the engine only requires checkCompliance)
Classes == {"policy", "defective"}

---------------------------------------------------------------------------
(* Sequences *)

Range(s) == {s[i] : i \in DOMAIN s}

RECURSIVE SeqsUpTo(_, _)
SeqsUpTo(S, n) ==
    IF n = 0 THEN {<<>>}
    ELSE LET shorter == SeqsUpTo(S, n - 1)
         IN shorter \cup {Append(s, x) : s \in {t \in shorter : Len(t) = n - 1}, x \in S}

\* Array.prototype.filter(v => v.severity === sev).length
CountSeverity(violations, sev) ==
    Cardinality({i \in DOMAIN violations : violations[i].severity = sev})

\* mutant of Without: only the first occurrence goes (splice at indexOf)
WithoutFirst(s, name) ==
    IF name \notin Range(s) THEN s
    ELSE LET i == CHOOSE k \in DOMAIN s :
                     s[k] = name /\ \A j \in 1..(k - 1) : s[j] # name
         IN SubSeq(s, 1, i - 1) \o SubSeq(s, i + 1, Len(s))

\* Array.prototype.filter(m => m !== name)
RECURSIVE Without(_, _)
Without(s, name) ==
    IF s = <<>> THEN <<>>
    ELSE IF Head(s) = name THEN Without(Tail(s), name)
    ELSE <<Head(s)>> \o Without(Tail(s), name)

\* [...new Set(s)]: a Set keeps insertion order and ignores a value it holds
RECURSIVE Dedupe(_)
Dedupe(s) ==
    IF s = <<>> THEN <<>>
    ELSE LET front == Dedupe(SubSeq(s, 1, Len(s) - 1))
             last == s[Len(s)]
         IN IF last \in Range(front) THEN front ELSE Append(front, last)

---------------------------------------------------------------------------
(* Module results *)

Violation(type, severity) == [type |-> type, severity |-> severity]

ModuleResult(compliant, violations, recommendations) ==
    [compliant |-> compliant, violations |-> violations,
     recommendations |-> recommendations]

\* a module that returns nothing
Undefined == [undefined |-> TRUE]

\* what a module call does; a module throws or rejects with an Error
\* ("Error") or with no reason at all, as `throw null` and `Promise.reject()`
\* do ("null")
Returns(value) == [kind |-> "return", value |-> value]
Rejects(error) == [kind |-> "reject", value |-> error]
Throws(error) == [kind |-> "throw", value |-> error]

\* CafeCompliance.checkCompliance: "flagged" content has loops and an
\* estimated energy between the default threshold and the custom one;
\* content that is no string makes code.split throw inside the try block
CafeCheckCompliance(config, content) ==
    IF content = "plain" THEN ModuleResult(TRUE, <<>>, <<>>)
    ELSE IF content = "notString"
    THEN ModuleResult(FALSE, <<Violation("ANALYSIS_ERROR", "MEDIUM")>>, <<>>)
    ELSE IF config = "default"
    THEN ModuleResult(FALSE, <<Violation("ENERGY_EFFICIENCY", "HIGH")>>,
                      <<"Consider optimizing loops">>)
    ELSE ModuleResult(TRUE, <<>>, <<"Consider optimizing loops">>)

\* HipaaCompliance.checkCompliance: "flagged" content holds PHI with no
\* encryption, access control or audit logging, and an http:// address; the
\* custom configuration has an empty phiPatterns, so it detects no PHI;
\* RegExp.test coerces content that is no string, so nothing throws
HipaaCheckCompliance(config, content) ==
    IF content # "flagged" THEN ModuleResult(TRUE, <<>>, <<>>)
    ELSE LET insecure == <<Violation("INSECURE_TRANSMISSION", "HIGH")>>
         IN IF config = "default"
            THEN ModuleResult(FALSE,
                     <<Violation("ENCRYPTION_MISSING", "CRITICAL"),
                       Violation("ACCESS_CONTROL_MISSING", "HIGH"),
                       Violation("AUDIT_LOGGING_MISSING", "HIGH")>> \o insecure,
                     <<"Implement PHI encryption", "Add access controls",
                       "Enable audit logging", "Implement data minimization">>)
            ELSE ModuleResult(TRUE, insecure, <<>>)

\* a stand-in whose checkCompliance breaks the contract: it throws
\* synchronously or rejects, with an Error or with no reason, or it returns
\* something that is not a ModuleResult
DefectiveCheckCompliance(config, content) ==
    CASE config = "default" /\ content = "plain" -> Throws("Error")
      [] config = "default" /\ content = "flagged" -> Rejects("Error")
      [] config = "default" /\ content = "notString" -> Rejects("null")
      [] config = "custom" /\ content = "plain" -> Returns(Undefined)
      [] config = "custom" /\ content = "flagged" ->
            Returns([compliant |-> TRUE,
                     violations |-> <<Violation("STUB", "HIGH")>>])
      [] OTHER ->
            Returns([violations |-> <<>>,
                     recommendations |-> <<"Review", "Review">>])

\* this.complianceModules[moduleName].checkCompliance(content, context):
\* a function of the instance and the input
Evaluate(name, inst, content) ==
    CASE inst.class = "defective" -> DefectiveCheckCompliance(inst.config, content)
      [] inst.class = "policy" /\ name = "cafe" ->
            Returns(CafeCheckCompliance(inst.config, content))
      [] OTHER -> Returns(HipaaCheckCompliance(inst.config, content))

---------------------------------------------------------------------------
(* One checkCompliance call *)

EmptyMap == [k \in {} |-> k]

NoPending == [name |-> "", outcome |-> [kind |-> "none"]]

\* the `results` object a call starts from
FreshResults ==
    [overallCompliant |-> TRUE,
     keys |-> <<>>,
     moduleResults |-> EmptyMap,
     summary |-> [totalViolations |-> 0, criticalViolations |-> 0,
                  highViolations |-> 0, recommendations |-> <<>>]]

\* a slot no call has used; `overlapped` records that another call was
\* suspended while this one ran
IdleRound ==
    [pc |-> "idle", content |-> "", live |-> FALSE, items |-> <<>>, idx |-> 0,
     pending |-> NoPending, results |-> FreshResults, ops |-> 0,
     startEnabled |-> <<>>, startModules |-> EmptyMap,
     startLastSet |-> EmptyMap, log |-> <<>>, overlapped |-> FALSE]

\* mutant of PutResult: a new key is listed before the keys the object
\* holds, as JavaScript lists an integer-like key
PutResultKeyFirst(results, name, value) ==
    [results EXCEPT
        !.moduleResults = [k \in (DOMAIN @) \cup {name} |->
                              IF k = name THEN value ELSE @[k]],
        !.keys = IF name \in Range(@) THEN @ ELSE <<name>> \o @]

\* results.moduleResults[moduleName] = value; a JavaScript object lists its
\* keys in insertion order and an overwritten key keeps its place
PutResult(results, name, value) ==
    [results EXCEPT
        !.moduleResults = [k \in (DOMAIN @) \cup {name} |->
                              IF k = name THEN value ELSE @[k]],
        !.keys = IF name \in Range(@) THEN @ ELSE Append(@, name)]

\* the result the catch block substitutes
SyntheticResult(name) ==
    [compliant |-> FALSE,
     violations |-> <<[type |-> "MODULE_ERROR",
                       message |-> "Compliance module " \o name \o " failed",
                       severity |-> "HIGH"]>>,
     recommendations |-> <<>>]

\* the catch block: reading error.message of null or undefined throws, and
\* that error leaves the async function
CatchBlock(st, name, error) ==
    IF error = "null"
    THEN [st EXCEPT !.pc = "rejected"]
    ELSE [st EXCEPT !.results =
             [PutResult(@, name, SyntheticResult(name)) EXCEPT
                 !.overallCompliant = FALSE]]

\* the statements of the try block after the await, in order; a property
\* read on a missing part throws a TypeError into the catch block
TryBlock(st, name, value) ==
    LET s1 == [st EXCEPT !.results = PutResult(@, name, value)]
    IN IF value = Undefined THEN CatchBlock(s1, name, "Error")
       ELSE
       LET s2 == IF "compliant" \in DOMAIN value /\ value.compliant
                 THEN s1
                 ELSE [s1 EXCEPT !.results.overallCompliant = FALSE]
       IN IF "violations" \notin DOMAIN value THEN CatchBlock(s2, name, "Error")
          ELSE
          LET v == value.violations
              s3 == [s2 EXCEPT
                        !.results.summary.totalViolations = @ + Len(v),
                        !.results.summary.criticalViolations =
                            @ + CountSeverity(v, "CRITICAL"),
                        !.results.summary.highViolations =
                            @ + CountSeverity(v, "HIGH")]
          IN IF "recommendations" \notin DOMAIN value
             THEN CatchBlock(s3, name, "Error")
             ELSE [s3 EXCEPT !.results.summary.recommendations =
                                 @ \o value.recommendations]

\* the statements after the loop
ReturnResults(st) ==
    [st EXCEPT !.pc = "returned",
               !.results.summary.recommendations = Dedupe(@)]

\* the for-of loop from its head up to the next await: the array iterator
\* reads the array's length anew at each step; a name with no module is
\* skipped; a module that throws synchronously is handled without suspending
RECURSIVE RunLoop(_, _, _)
RunLoop(st, items, modules) ==
    IF st.pc = "rejected" THEN st
    ELSE IF st.idx >= Len(items) THEN ReturnResults(st)
    ELSE
    LET name == items[st.idx + 1]
        s1 == [st EXCEPT !.idx = @ + 1]
    IN IF name \notin DOMAIN modules THEN RunLoop(s1, items, modules)
       ELSE
       LET inst == modules[name]
           outcome == Evaluate(name, inst, st.content)
           s2 == [s1 EXCEPT !.log = Append(@, [name |-> name, inst |-> inst,
                                               failed |-> outcome.kind # "return"])]
       IN IF outcome.kind = "throw"
          THEN RunLoop(CatchBlock(s2, name, outcome.value), items, modules)
          ELSE [s2 EXCEPT !.pc = "awaiting",
                          !.pending = [name |-> name, outcome |-> outcome]]

\* a suspended call from the settling of the awaited module call up to the
\* next await: the rest of the try block or the catch block, then the loop
Continue(st, items, modules) ==
    LET name == st.pending.name
        outcome == st.pending.outcome
        s0 == [st EXCEPT !.pc = "running", !.pending = NoPending]
        s1 == IF outcome.kind = "return"
              THEN TryBlock(s0, name, outcome.value)
              ELSE CatchBlock(s0, name, outcome.value)
    IN RunLoop(s1, items, modules)

\* a call run to its end with nothing else happening in between
RECURSIVE Complete(_, _, _)
Complete(st, items, modules) ==
    IF st.pc = "awaiting" THEN Complete(Continue(st, items, modules), items, modules)
    ELSE st

\* checkCompliance(content, context) on an engine nothing else uses
RunAlone(items, modules, content) ==
    Complete(RunLoop([IdleRound EXCEPT !.pc = "running", !.content = content],
                     items, modules),
             items, modules)

\* the array a call iterates: the engine's array while the engine still
\* holds it, the call's own reference once the engine has replaced it
IteratedArray(st) == IF st.live THEN enabledModules ELSE st.items

\* a call that has settled holds no iterator and no pending promise
Settle(st) ==
    IF st.pc \in {"returned", "rejected"}
    THEN [st EXCEPT !.live = FALSE, !.items = <<>>, !.idx = 0,
                    !.pending = NoPending, !.ops = 0]
    ELSE st

InFlight(r) == round[r].pc = "awaiting"

\* a configuration call may run now: no suspended call has seen its share
MayReconfigure ==
    \A r \in RoundIds : InFlight(r) => round[r].ops < MaxMidRoundOps

\* A settled call keeps its outcome in its slot until the engine is next
\* used: the caller has the report (or the rejection) by then.

---------------------------------------------------------------------------
(* How a synchronous call of the engine's interface completes *)

\* the call of method `op` returned `value` to its caller
Normal(op, value) == [op |-> op, threw |-> FALSE, value |-> value]

\* the call of method `op` threw `error` at its caller
Abrupt(op, error) == [op |-> op, threw |-> TRUE, value |-> error]

\* the latest step was no call: the constructor, or a call resuming
NoCall == Normal("none", "none")

\* no policy module has been called on its own
NoAnalysis == [module |-> "none"]

---------------------------------------------------------------------------
(* Initial state: the constructor *)

\* options.enabledModules || Object.keys(this.complianceModules): the caller's
\* array is taken as it is, in whatever order and with whatever repetitions
InitialEnabled ==
    {SubSeq(ModuleNames, 1, Cardinality(Modules))}
        \cup SeqsUpTo(Modules, MaxInitLen)

\* the classes behind the names: the policy modules the constructor builds,
\* or a stand-in installed in the place of the last of them
InitialClasses ==
    {classOf \in [Modules -> Classes] :
        \A n \in Modules :
            RegistrationIndex(n) < Cardinality(Modules) => classOf[n] = "policy"}

\* options.failOnAnyViolation as the caller may give it
FlagOptions == {"undefined", "true", "false"}

\* options.failOnAnyViolation !== false
FailOnAnyViolation(option) == option # "false"

\* the constructor, whatever options.failOnAnyViolation is
InitWith(options) ==
    /\ \E classOf \in InitialClasses :
          complianceModules =
              [n \in Modules |-> [class |-> classOf[n], config |-> "default",
                                  id |-> RegistrationIndex(n)]]
    /\ enabledModules \in InitialEnabled
    /\ nextId = Cardinality(Modules) + 1
    /\ round = [r \in RoundIds |-> IdleRound]
    /\ lastSet = [n \in Modules |-> "none"]
    /\ completion = NoCall
    /\ analysis = NoAnalysis
    /\ \E option \in options : failOnAnyViolation = FailOnAnyViolation(option)

\* the engine built with no failOnAnyViolation among its options
Init == InitWith({"undefined"})

---------------------------------------------------------------------------
(* Operations *)

\* mutant of CheckCompliance: the call goes on from the counters of the
\* report the other slot holds, as if `summary` were kept on the engine
CheckComplianceSharedSummary(r, content) ==
    /\ ~InFlight(r)
    /\ LET other == CHOOSE q \in RoundIds : q # r
           st == [IdleRound EXCEPT
                     !.pc = "running", !.content = content, !.live = TRUE,
                     !.startEnabled = enabledModules,
                     !.startModules = complianceModules,
                     !.startLastSet = lastSet,
                     !.results.summary = round[other].results.summary,
                     !.overlapped = \E q \in RoundIds \ {r} : InFlight(q)]
       IN round' = [q \in RoundIds |->
                       IF q = r
                       THEN Settle(RunLoop(st, enabledModules, complianceModules))
                       ELSE IF InFlight(q)
                       THEN [round[q] EXCEPT !.overlapped = TRUE]
                       ELSE round[q]]
    /\ completion' = Normal("checkCompliance", "promise")
    /\ UNCHANGED <<complianceModules, enabledModules, nextId, lastSet, analysis,
                   failOnAnyViolation>>

\* checkCompliance(content, context), from the call to its first await (or
\* to its end when nothing suspends it)
CheckCompliance(r, content) ==
    /\ ~InFlight(r)
    /\ LET st == [IdleRound EXCEPT
                     !.pc = "running", !.content = content, !.live = TRUE,
                     !.startEnabled = enabledModules,
                     !.startModules = complianceModules,
                     !.startLastSet = lastSet,
                     !.overlapped = \E q \in RoundIds \ {r} : InFlight(q)]
       IN round' = [q \in RoundIds |->
                       IF q = r
                       THEN Settle(RunLoop(st, enabledModules, complianceModules))
                       ELSE IF InFlight(q)
                       THEN [round[q] EXCEPT !.overlapped = TRUE]
                       ELSE round[q]]
    /\ completion' = Normal("checkCompliance", "promise")
    /\ UNCHANGED <<complianceModules, enabledModules, nextId, lastSet, analysis,
                   failOnAnyViolation>>

\* the awaited module call settles: the rest of the try block or the catch
\* block, then the loop up to the next await
Resume(r) ==
    /\ InFlight(r)
    /\ round' = [round EXCEPT ![r] =
          Settle(Continue(round[r], IteratedArray(round[r]), complianceModules))]
    /\ completion' = NoCall
    /\ UNCHANGED <<complianceModules, enabledModules, nextId, lastSet, analysis,
                   failOnAnyViolation>>

\* history of setModuleEnabled(name, enabled) on a registered name
NoteSet(history, name, enabled) ==
    IF name \notin DOMAIN history THEN history
    ELSE [history EXCEPT ![name] =
             IF ~enabled THEN "disabled"
             ELSE IF @ = "disabled" THEN "reenabled" ELSE @]

\* mutant of SetModuleEnabled: enabling pushes the name without looking for
\* it in the array
SetModuleEnabledPushing(name, enabled) ==
    /\ MayReconfigure
    /\ enabledModules' =
          IF enabled THEN Append(enabledModules, name)
          ELSE Without(enabledModules, name)
    /\ lastSet' = NoteSet(lastSet, name, enabled)
    /\ round' = [r \in RoundIds |->
          IF ~InFlight(r) THEN IdleRound
          ELSE LET st == round[r]
                   kept == IF ~enabled /\ st.live
                           THEN [st EXCEPT !.live = FALSE, !.items = enabledModules]
                           ELSE st
               IN [kept EXCEPT
                      !.ops = @ + 1,
                      !.startLastSet =
                          IF name \in DOMAIN @ THEN [@ EXCEPT ![name] = "none"]
                          ELSE @]]
    /\ completion' = Normal("setModuleEnabled", "undefined")
    /\ UNCHANGED <<complianceModules, nextId, analysis,
                   failOnAnyViolation>>

\* setModuleEnabled(moduleName, enabled): push mutates the array the calls in
\* flight iterate; filter builds a new array and leaves them the old one
SetModuleEnabled(name, enabled) ==
    /\ MayReconfigure
    /\ enabledModules' =
          IF enabled /\ name \notin Range(enabledModules)
          THEN Append(enabledModules, name)
          ELSE IF ~enabled THEN Without(enabledModules, name)
          ELSE enabledModules
    /\ lastSet' = NoteSet(lastSet, name, enabled)
    /\ round' = [r \in RoundIds |->
          IF ~InFlight(r) THEN IdleRound
          ELSE LET st == round[r]
                   kept == IF ~enabled /\ st.live
                           THEN [st EXCEPT !.live = FALSE, !.items = enabledModules]
                           ELSE st
               IN [kept EXCEPT
                      !.ops = @ + 1,
                      !.startLastSet =
                          IF name \in DOMAIN @ THEN [@ EXCEPT ![name] = "none"]
                          ELSE @]]
    /\ completion' = Normal("setModuleEnabled", "undefined")
    /\ UNCHANGED <<complianceModules, nextId, analysis,
                   failOnAnyViolation>>

\* mutant of Reinitialize: the class comes from the constructor's table of
\* policy modules, not from the instance that is registered
ReinitializeBuiltIn(inst, config, id) ==
    [class |-> "policy", config |-> config, id |-> id]

\* new (inst.constructor)(config): a new object of the instance's own class
Reinitialize(inst, config, id) ==
    [class |-> inst.class, config |-> config, id |-> id]

\* mutant of ConfigureModule: every registered module is rebuilt from config
ConfigureEveryModule(name, config) ==
    /\ MayReconfigure
    /\ nextId <= Cardinality(Modules) + MaxConfigure
    /\ IF name \in DOMAIN complianceModules
       THEN /\ complianceModules' =
                  [n \in DOMAIN complianceModules |->
                      Reinitialize(complianceModules[n], config,
                                   IF n = name THEN nextId ELSE -nextId)]
            /\ nextId' = nextId + 1
       ELSE UNCHANGED <<complianceModules, nextId>>
    /\ round' = [r \in RoundIds |->
          IF InFlight(r) THEN [round[r] EXCEPT !.ops = @ + 1] ELSE IdleRound]
    /\ completion' = Normal("configureModule", "undefined")
    /\ UNCHANGED <<enabledModules, lastSet, analysis,
                   failOnAnyViolation>>

\* a config the constructors cannot read: null (the default `options = {}`
\* stands in for undefined only), and `options.energyThreshold` and the like
\* throw a TypeError on it
InvalidConfig == "null"

AllConfigs == Configs \cup {InvalidConfig}

\* new ModuleClass(config)
Construct(inst, config, id) ==
    IF config = InvalidConfig THEN Throws("TypeError")
    ELSE Returns(Reinitialize(inst, config, id))

\* mutant of AssignConstructed: the registered instance is let go before
\* its replacement is constructed
AssignConstructedAfterDelete(modules, name, outcome) ==
    IF outcome.kind = "throw"
    THEN [n \in DOMAIN modules \ {name} |-> modules[n]]
    ELSE [modules EXCEPT ![name] = outcome.value]

\* this.complianceModules[moduleName] = new ModuleClass(config): the
\* assignment happens once the constructor has returned
AssignConstructed(modules, name, outcome) ==
    IF outcome.kind = "throw" THEN modules
    ELSE [modules EXCEPT ![name] = outcome.value]

\* configureModule(moduleName, config); the model stops calling it with a
\* config the constructors accept once MaxConfigure instances were made
ConfigureModule(name, config) ==
    /\ MayReconfigure
    /\ config # InvalidConfig => nextId <= Cardinality(Modules) + MaxConfigure
    /\ IF name \in DOMAIN complianceModules
       THEN LET outcome == Construct(complianceModules[name], config, nextId)
            IN /\ complianceModules' =
                     AssignConstructed(complianceModules, name, outcome)
               /\ nextId' = IF outcome.kind = "throw" THEN nextId ELSE nextId + 1
               /\ completion' =
                     IF outcome.kind = "throw"
                     THEN Abrupt("configureModule", outcome.value)
                     ELSE Normal("configureModule", "undefined")
       ELSE /\ UNCHANGED <<complianceModules, nextId>>
            /\ completion' = Normal("configureModule", "undefined")
    /\ round' = [r \in RoundIds |->
          IF InFlight(r) THEN [round[r] EXCEPT !.ops = @ + 1] ELSE IdleRound]
    /\ UNCHANGED <<enabledModules, lastSet, analysis,
                   failOnAnyViolation>>

\* getRequirements() of a policy module: a description with the thresholds
\* of the instance's configuration
PolicyGetRequirements(name, config) == [standard |-> name, thresholds |-> config]

\* this.complianceModules[moduleName].getRequirements(): a stand-in may have
\* no such method or one that throws, or return nothing
ModuleGetRequirements(name, inst) ==
    CASE inst.class = "defective" /\ inst.config = "default" -> Throws("Error")
      [] inst.class = "defective" /\ inst.config = "custom" -> Returns(Undefined)
      [] OTHER -> Returns(PolicyGetRequirements(name, inst.config))

\* the loop of getRequirements over the enabled array: nothing catches what
\* a module throws
RECURSIVE RequirementsLoop(_, _, _)
RequirementsLoop(items, modules, requirements) ==
    IF items = <<>> THEN Normal("getRequirements", requirements)
    ELSE IF Head(items) \notin DOMAIN modules
    THEN RequirementsLoop(Tail(items), modules, requirements)
    ELSE LET name == Head(items)
             outcome == ModuleGetRequirements(name, modules[name])
         IN IF outcome.kind = "throw"
            THEN Abrupt("getRequirements", outcome.value)
            ELSE RequirementsLoop(Tail(items), modules,
                     [k \in (DOMAIN requirements) \cup {name} |->
                         IF k = name THEN outcome.value ELSE requirements[k]])

\* mutant of ReadCall: the call walks the enabled array by shifting the names
\* off it
ReadCallShifting(outcome) ==
    /\ MayReconfigure
    /\ completion' = outcome
    /\ round' = [r \in RoundIds |->
          IF InFlight(r) THEN [round[r] EXCEPT !.ops = @ + 1] ELSE IdleRound]
    /\ enabledModules' = <<>>
    /\ UNCHANGED <<complianceModules, nextId, lastSet, analysis,
                   failOnAnyViolation>>

\* a call that reads the engine while checkCompliance calls may be suspended
ReadCall(outcome) ==
    /\ MayReconfigure
    /\ completion' = outcome
    /\ round' = [r \in RoundIds |->
          IF InFlight(r) THEN [round[r] EXCEPT !.ops = @ + 1] ELSE IdleRound]
    /\ UNCHANGED <<complianceModules, enabledModules, nextId, lastSet, analysis,
                   failOnAnyViolation>>

\* getRequirements()
GetRequirements ==
    ReadCall(RequirementsLoop(enabledModules, complianceModules, EmptyMap))

\* Object.keys(this.complianceModules): the keys in insertion order
RegisteredNames ==
    SelectSeq(ModuleNames, LAMBDA n : n \in DOMAIN complianceModules)

\* getAvailableModules()
GetAvailableModules ==
    ReadCall(Normal("getAvailableModules", RegisteredNames))

Next ==
    \/ \E content \in Contents : CheckCompliance(1, content)
    \/ Resume(1)
    \/ \E name \in AllNames, enabled \in BOOLEAN : SetModuleEnabled(name, enabled)
    \/ \E name \in AllNames, config \in Configs : ConfigureModule(name, config)

Spec == Init /\ [][Next]_vars

\* every module call awaited by a round completes, by returning or by
\* throwing: the suspended round is resumed
SpecFair == Init /\ [][Next]_vars /\ WF_vars(Resume(1))

\* checkCompliance calls that overlap in time, on an engine nothing
\* reconfigures
NextOverlap ==
    \/ \E r \in RoundIds, content \in Contents : CheckCompliance(r, content)
    \/ \E r \in RoundIds : Resume(r)

SpecOverlap == Init /\ [][NextOverlap]_vars

\* the engine reconfigured with whatever config object the caller hands over
NextConfigure ==
    \/ \E content \in Contents : CheckCompliance(1, content)
    \/ Resume(1)
    \/ \E name \in AllNames, config \in AllConfigs : ConfigureModule(name, config)

SpecConfigure == Init /\ [][NextConfigure]_vars

---------------------------------------------------------------------------
(* Two engines built with options that differ in failOnAnyViolation only *)

\* Slot 1 holds the calls made on the engine, slot 2 the same calls made on
\* its twin, built with the other value of the flag and put through the same
\* calls; setModuleEnabled and configureModule do to the twin's module map
\* and enabled array what they do to the engine's, so these are held once.
FlagOf(r) == IF r = 1 THEN failOnAnyViolation ELSE ~failOnAnyViolation

\* mutant of SettleOn: an engine with the flag set reports a failure as soon
\* as the report counts a violation
SettleOnEnforcing(flag, st) ==
    LET settled == Settle(st)
    IN IF settled.pc = "returned" /\ flag
          /\ settled.results.summary.totalViolations > 0
       THEN [settled EXCEPT !.results.overallCompliant = FALSE]
       ELSE settled

\* the end of a synchronous segment of a call on an engine whose
\* failOnAnyViolation is `flag`: checkCompliance never reads the field
SettleOn(flag, st) ==
    Settle(st)

\* checkCompliance(content, context) called on the engine and on its twin
CheckComplianceOnBoth(content) ==
    /\ \A r \in RoundIds : ~InFlight(r)
    /\ LET st == [IdleRound EXCEPT
                     !.pc = "running", !.content = content, !.live = TRUE,
                     !.startEnabled = enabledModules,
                     !.startModules = complianceModules,
                     !.startLastSet = lastSet]
       IN round' = [r \in RoundIds |->
                       SettleOn(FlagOf(r),
                                RunLoop(st, enabledModules, complianceModules))]
    /\ completion' = Normal("checkCompliance", "promise")
    /\ UNCHANGED <<complianceModules, enabledModules, nextId, lastSet, analysis,
                   failOnAnyViolation>>

\* the module call awaited on each of the two engines settles
ResumeBoth ==
    /\ \E r \in RoundIds : InFlight(r)
    /\ round' = [r \in RoundIds |->
          IF InFlight(r)
          THEN SettleOn(FlagOf(r),
                        Continue(round[r], IteratedArray(round[r]),
                                 complianceModules))
          ELSE round[r]]
    /\ completion' = NoCall
    /\ UNCHANGED <<complianceModules, enabledModules, nextId, lastSet, analysis,
                   failOnAnyViolation>>

InitTwins == InitWith(FlagOptions)

\* the calls name registered modules
NextTwins ==
    \/ \E content \in Contents : CheckComplianceOnBoth(content)
    \/ ResumeBoth
    \/ \E name \in Modules, enabled \in BOOLEAN : SetModuleEnabled(name, enabled)
    \/ \E name \in Modules, config \in Configs : ConfigureModule(name, config)

SpecTwins == InitTwins /\ [][NextTwins]_vars

---------------------------------------------------------------------------
\* the engine with the calls that only read it
NextReads ==
    \/ Next
    \/ GetRequirements
    \/ GetAvailableModules

SpecReads == Init /\ [][NextReads]_vars

---------------------------------------------------------------------------
(* The policy modules called on their own *)

\* LOW < MEDIUM < HIGH < CRITICAL
Severities == <<"LOW", "MEDIUM", "HIGH", "CRITICAL">>

SeverityRank(sev) == CHOOSE i \in DOMAIN Severities : Severities[i] = sev

\* what is handed over as `code`: a string; a value that is no string but
\* converts to one (an array: no split method); a value that does not
\* convert (a Symbol: RegExp.prototype.test throws on it)
CodeKinds == {"string", "array", "symbol"}

\* what is handed over as `context`: nothing (the default {} applies), null,
\* or an object with developerHours above 8
Contexts == {"omitted", "null", "overtime"}

\* the code OshaCompliance looks at: is its complexity above maxComplexity,
\* is its longest function above maxLinesPerFunction
OshaCodes == [kind : CodeKinds, complex : BOOLEAN, longFunction : BOOLEAN]

\* the code HipaaCompliance looks at: does it match a default PHI pattern,
\* an encryption, access control or audit pattern, the hardcoded-secret
\* pattern, the http:// pattern
HipaaCodes ==
    [kind : CodeKinds, phi : BOOLEAN, encrypted : BOOLEAN, authorized : BOOLEAN,
     logged : BOOLEAN, secret : BOOLEAN, http : BOOLEAN]

\* the `result` object a module's checkCompliance starts from
FreshModuleResult == ModuleResult(TRUE, <<>>, <<>>)

\* result.violations.push(...violations)
PushViolations(result, violations) ==
    [result EXCEPT !.violations = @ \o violations]

\* the catch block of a module's checkCompliance: it adds to the result as
\* the try block left it
CatchAnalysisError(result) ==
    [PushViolations(result, <<Violation("ANALYSIS_ERROR", "MEDIUM")>>)
        EXCEPT !.compliant = FALSE]

\* OshaCompliance.checkCompliance(code, context); the custom options switch
\* ergonomicsCheck and mentalHealthMonitoring off
OshaCheckCompliance(options, code, context) ==
    LET r0 == FreshModuleResult
        \* _analyzeCodeQuality: code.split
        r1 == IF code.complex
              THEN [PushViolations(r0, <<Violation("CODE_COMPLEXITY", "HIGH")>>)
                       EXCEPT !.compliant = FALSE]
              ELSE r0
        r2 == IF code.longFunction
              THEN PushViolations(r1, <<Violation("FUNCTION_LENGTH", "MEDIUM")>>)
              ELSE r1
        \* _checkMentalHealthIndicators: context.developerHours
        r3 == IF options = "default" /\ context = "overtime"
              THEN PushViolations(r2, <<Violation("OVERTIME_INDICATOR", "MEDIUM")>>)
              ELSE r2
        r4 == [r3 EXCEPT !.recommendations =
                 <<"Maintain code complexity", "Implement regular breaks",
                   "Use ergonomic development practices">>
                 \o (IF code.complex THEN <<"Consider refactoring">> ELSE <<>>)]
    IN IF code.kind # "string" THEN CatchAnalysisError(r0)
       ELSE IF options = "default" /\ context = "null" THEN CatchAnalysisError(r2)
       ELSE r4

\* HipaaCompliance.checkCompliance(code, context); the custom options hold an
\* empty phiPatterns, so that no pattern is tried on the code
HipaaCheckComplianceOn(options, code) ==
    LET r0 == FreshModuleResult
        hasPhi == options = "default" /\ code.phi
        r1 == IF hasPhi /\ ~code.encrypted
              THEN [PushViolations(r0, <<Violation("ENCRYPTION_MISSING", "CRITICAL")>>)
                       EXCEPT !.compliant = FALSE]
              ELSE r0
        r2 == IF hasPhi /\ ~code.authorized
              THEN PushViolations(r1, <<Violation("ACCESS_CONTROL_MISSING", "HIGH")>>)
              ELSE r1
        r3 == IF hasPhi /\ ~code.logged
              THEN PushViolations(r2, <<Violation("AUDIT_LOGGING_MISSING", "HIGH")>>)
              ELSE r2
        \* _checkSecurityIssues
        r4 == PushViolations(r3,
                 (IF code.secret THEN <<Violation("HARDCODED_SECRETS", "CRITICAL")>>
                  ELSE <<>>)
                 \o (IF code.http THEN <<Violation("INSECURE_TRANSMISSION", "HIGH")>>
                     ELSE <<>>))
        r5 == IF hasPhi
              THEN [r4 EXCEPT !.recommendations =
                       <<"Implement PHI encryption", "Add access controls",
                         "Enable audit logging", "Implement data minimization">>]
              ELSE r4
    IN \* the first pattern.test(code), in _analyzePhiPresence or, with no PHI
       \* pattern, in _checkSecurityIssues
       IF code.kind = "symbol" THEN CatchAnalysisError(r0)
       ELSE r5


\* the thresholds a result agrees with: compliant is false exactly when a
\* violation of the result is at or above the threshold
ThresholdsOf(result) ==
    {t \in Range(Severities) :
        (~result.compliant) <=>
            \E i \in DOMAIN result.violations :
                SeverityRank(result.violations[i].severity) >= SeverityRank(t)}

\* one call of a module constructed with `options`: the result it resolves
\* to, and the thresholds that agree with every result the module has
\* returned since it was constructed
Analyze(module, options, code, context, result) ==
    /\ analysis' =
          [module |-> module, options |-> options, code |-> code,
           context |-> context, result |-> result,
           thresholds |->
               IF analysis.module = module /\ analysis.options = options
               THEN analysis.thresholds \cap ThresholdsOf(result)
               ELSE ThresholdsOf(result)]
    /\ UNCHANGED <<complianceModules, enabledModules, nextId, round, lastSet,
                   completion, failOnAnyViolation>>

\* await new OshaCompliance(options).checkCompliance(code, context)
AnalyzeOsha ==
    \E options \in Configs, code \in OshaCodes, context \in Contexts :
        Analyze("osha", options, code, context,
                OshaCheckCompliance(options, code, context))

\* await new HipaaCompliance(options).checkCompliance(code): the method
\* never reads its second parameter
AnalyzeHipaa ==
    \E options \in Configs, code \in HipaaCodes :
        Analyze("hipaa", options, code, "omitted",
                HipaaCheckComplianceOn(options, code))

\* new ComplianceEngine(), no option given and no call made on it
InitModules ==
    /\ Init
    /\ enabledModules = RegisteredNames
    /\ \A n \in Modules : complianceModules[n].class = "policy"

NextModules == AnalyzeOsha \/ AnalyzeHipaa

SpecModules == InitModules /\ [][NextModules]_vars

---------------------------------------------------------------------------
(* Reading a call's outcome *)

Settled(r) == round[r].pc \in {"returned", "rejected"}
Returned(r) == round[r].pc = "returned"
Report(r) == round[r].results

\* names of the modules a call has invoked so far
Evaluated(r) == {round[r].log[i].name : i \in DOMAIN round[r].log}

IsCompliant(entry) == "compliant" \in DOMAIN entry /\ entry.compliant = TRUE

IsModuleError(entry) ==
    /\ "compliant" \in DOMAIN entry /\ entry.compliant = FALSE
    /\ Len(entry.violations) = 1
    /\ entry.violations[1].type = "MODULE_ERROR"
    /\ entry.violations[1].severity = "HIGH"

\* the entry one module call yields when nothing else is in the round
LoneEntry(name, inst, content) ==
    LET outcome == Evaluate(name, inst, content)
    IN IF /\ outcome.kind = "return"
          /\ {"violations", "recommendations"} \subseteq DOMAIN outcome.value
       THEN outcome.value
       ELSE SyntheticResult(name)

RECURSIVE SumOver(_, _)
\* the sum of f over the set `names`
SumOver(f, names) ==
    IF names = {} THEN 0
    ELSE LET n == CHOOSE x \in names : TRUE
         IN f[n] + SumOver(f, names \ {n})

\* over all entries: the violations in all, or those of one severity
TotalViolations(moduleResults) ==
    SumOver([k \in DOMAIN moduleResults |-> Len(moduleResults[k].violations)],
            DOMAIN moduleResults)

TotalOfSeverity(moduleResults, severity) ==
    SumOver([k \in DOMAIN moduleResults |->
                CountSeverity(moduleResults[k].violations, severity)],
            DOMAIN moduleResults)

RECURSIVE AllRecommendations(_, _)
\* the entries' recommendations, entries in key order
AllRecommendations(moduleResults, keys) ==
    IF keys = <<>> THEN <<>>
    ELSE moduleResults[Head(keys)].recommendations
         \o AllRecommendations(moduleResults, Tail(keys))

\* registered names appear in the order of the module map
InRegistrationOrder(names) ==
    \A i, j \in DOMAIN names :
        (i < j /\ names[i] \in Modules /\ names[j] \in Modules)
            => RegistrationIndex(names[i]) <= RegistrationIndex(names[j])

---------------------------------------------------------------------------
(* Claims *)

\* C1: checkCompliance always completes by returning a report; it never
\* raises or rejects, whatever the enabled modules do.
C1_NeverRejects == \A r \in RoundIds : round[r].pc # "rejected"

\* C2: in every returned report, overallCompliant is true exactly when
\* every entry of moduleResults has compliant = true.
C2_OverallIsConjunction ==
    \A r \in RoundIds : Returned(r) =>
        (Report(r).overallCompliant <=>
            \A k \in DOMAIN Report(r).moduleResults :
                IsCompliant(Report(r).moduleResults[k]))

\* C3: in every returned report, summary.totalViolations is the sum of
\* violations.length over the entries of moduleResults.
C3_TotalIsSum ==
    \A r \in RoundIds : Returned(r) =>
        Report(r).summary.totalViolations =
            TotalViolations(Report(r).moduleResults)

\* C4: when a module's checkCompliance throws or rejects, the round is not
\* aborted, the module's slot holds the MODULE_ERROR result (compliant false,
\* one violation, severity HIGH), and every other entry is what that module
\* yields on its own.
C4_FailureIsolated ==
    \A r \in RoundIds : Settled(r) =>
        \A i \in DOMAIN round[r].log :
            round[r].log[i].failed =>
                /\ Returned(r)
                /\ round[r].log[i].name \in DOMAIN Report(r).moduleResults
                /\ IsModuleError(Report(r).moduleResults[round[r].log[i].name])
                /\ \A j \in DOMAIN round[r].log :
                      round[r].log[j].name # round[r].log[i].name =>
                          \E k \in DOMAIN round[r].log :
                              /\ round[r].log[k].name = round[r].log[j].name
                              /\ Report(r).moduleResults[round[r].log[j].name] =
                                    LoneEntry(round[r].log[k].name,
                                              round[r].log[k].inst,
                                              round[r].content)

\* C5: the modules in a round's moduleResults are exactly the registered
\* modules that were enabled when the round started, whatever
\* setModuleEnabled calls ran while the round was suspended.
C5_EnabledSnapshot ==
    \A r \in RoundIds : Returned(r) =>
        /\ DOMAIN Report(r).moduleResults = Range(round[r].startEnabled) \cap Modules
        /\ Evaluated(r) = Range(round[r].startEnabled) \cap Modules

\* C6: every module evaluated in a round is evaluated with the instance that
\* was registered when the round started, whatever configureModule calls
\* completed while the round was in flight.
C6_InstanceSnapshot ==
    \A r \in RoundIds : Returned(r) =>
        \A i \in DOMAIN round[r].log :
            round[r].log[i].inst = round[r].startModules[round[r].log[i].name]

\* C7: for every registered name, the round that follows
\* setModuleEnabled(name, false) neither evaluates the module nor has a key
\* for it, and the report of the round that follows a later
\* setModuleEnabled(name, true) has a key for it, from an evaluation of the
\* module that is still registered.
C7_DisableThenReenable ==
    \A r \in RoundIds : \A n \in Modules :
        /\ (round[r].pc # "idle" /\ round[r].startLastSet[n] = "disabled") =>
              n \notin DOMAIN Report(r).moduleResults /\ n \notin Evaluated(r)
        /\ (Returned(r) /\ round[r].startLastSet[n] = "reenabled") =>
              n \in DOMAIN Report(r).moduleResults /\ n \in Evaluated(r)

\* C7 witness: a returned report of a round that started with one module
\* disabled and another disabled and enabled again.
C7_Witness ==
    /\ Returned(1)
    /\ \E n, m \in Modules :
          /\ round[1].startLastSet[n] = "disabled"
          /\ round[1].startLastSet[m] = "reenabled"
          /\ m \in DOMAIN Report(1).moduleResults
          /\ IsCompliant(Report(1).moduleResults[m])
          /\ n \notin DOMAIN Report(1).moduleResults

\* C8: setModuleEnabled and configureModule keep the enabled modules in
\* registration order: no call moves a module relative to the others.
C8_RegistrationOrder ==
    [][InRegistrationOrder(enabledModules)
          => InRegistrationOrder(enabledModules')]_vars

\* C9: in every returned report, criticalViolations and highViolations are
\* the numbers of CRITICAL and HIGH violations over the entries of
\* moduleResults.
C9_SeverityCounts ==
    \A r \in RoundIds : Returned(r) =>
        /\ Report(r).summary.criticalViolations =
              TotalOfSeverity(Report(r).moduleResults, "CRITICAL")
        /\ Report(r).summary.highViolations =
              TotalOfSeverity(Report(r).moduleResults, "HIGH")

\* C10: in every returned report, summary.recommendations holds no string
\* twice, holds exactly the strings of the entries' recommendations, and
\* lists them by first occurrence over the entries in evaluation order.
C10_Recommendations ==
    \A r \in RoundIds : Returned(r) =>
        LET recs == Report(r).summary.recommendations
            all == AllRecommendations(Report(r).moduleResults, Report(r).keys)
        IN /\ \A i, j \in DOMAIN recs : recs[i] = recs[j] => i = j
           /\ Range(recs) = Range(all)
           /\ recs = Dedupe(all)

\* how many times a call has invoked the module under `name`
TimesEvaluated(r, name) ==
    Cardinality({i \in DOMAIN round[r].log : round[r].log[i].name = name})

\* C11: in every returned report, moduleResults has one key per registered
\* name of the enabled list the round started from, and each such module was
\* evaluated exactly once, so that the summary counts it once.
C11_OncePerModule ==
    \A r \in RoundIds : Returned(r) =>
        /\ DOMAIN Report(r).moduleResults = Range(round[r].startEnabled) \cap Modules
        /\ \A n \in Range(round[r].startEnabled) \cap Modules :
              TimesEvaluated(r, n) = 1

\* C12: setModuleEnabled with a name no module is registered under leaves
\* the enabled list and the module map as they were, for enabled = true and
\* for enabled = false.
C12_UnknownNameNoOp ==
    [][(\E enabled \in BOOLEAN : SetModuleEnabled(UnknownName, enabled))
          => UNCHANGED <<enabledModules, complianceModules>>]_vars

\* identities of the instances the module map holds
RegisteredIds == {complianceModules[n].id : n \in DOMAIN complianceModules}

C14_UnknownModuleError ==
    [][\A config \in Configs :
          ConfigureModule(UnknownName, config)
              => completion' = Abrupt("configureModule", "UnknownModuleError")]_vars

\* what a caller finds under `name` in the moduleResults of a call's report:
\* nothing when the call rejected or the report has no such key
EntryIn(st, name) ==
    IF st.pc = "returned" /\ name \in DOMAIN st.results.moduleResults
    THEN <<st.results.moduleResults[name]>>
    ELSE <<>>

\* the names whose instance the step replaces
Reconfigured ==
    {n \in Modules : complianceModules'[n] # complianceModules[n]}

\* C15: a configureModule(A, config) call replaces the instance of A alone:
\* every other registered module B keeps its instance, and for every content
\* B's entry in the moduleResults of a round's report is the same before the
\* call as after it.  The two rounds compared are rounds of their own, one
\* before the call and one after it; they depend on the module map and the
\* enabled list alone, so they are compared at the calls made while no
\* checkCompliance call occupies a slot.
C15_ConfigureFrame ==
    [][complianceModules' # complianceModules =>
          /\ completion'.op = "configureModule"
          /\ Cardinality(Reconfigured) = 1
          /\ (\A r \in RoundIds : round[r].pc = "idle") =>
             \A content \in Contents :
                LET before == RunAlone(enabledModules, complianceModules, content)
                    after == RunAlone(enabledModules', complianceModules', content)
                IN (before.pc = "returned" /\ after.pc = "returned") =>
                      \A b \in Modules \ Reconfigured :
                          EntryIn(before, b) = EntryIn(after, b)]_vars

\* C15 witness: a round that started after module A was reconfigured has
\* returned a report with a non-compliant entry for another module B.
C15_Witness ==
    /\ Returned(1)
    /\ \E a, b \in Modules :
          /\ a # b
          /\ round[1].startModules[a].id > Cardinality(Modules)
          /\ round[1].startModules[b].id <= Cardinality(Modules)
          /\ a \in Evaluated(1)
          /\ b \in DOMAIN Report(1).moduleResults
          /\ ~IsCompliant(Report(1).moduleResults[b])

\* C16: getRequirements never throws: when an enabled module's
\* getRequirements throws, the mapping returned has an error placeholder
\* under that module's name, and under every other enabled module's name what
\* that module returned.
C16_RequirementsIsolated ==
    completion.op = "getRequirements" =>
        /\ ~completion.threw
        /\ \A n \in Range(enabledModules) \cap DOMAIN complianceModules :
              /\ n \in DOMAIN completion.value
              /\ LET outcome == ModuleGetRequirements(n, complianceModules[n])
                 IN IF outcome.kind = "throw"
                    THEN "error" \in DOMAIN completion.value[n]
                    ELSE completion.value[n] = outcome.value

\* C17: checkCompliance (its resumptions included), getRequirements and
\* getAvailableModules leave the enabled list and the module map with its
\* instances as they were; only a setModuleEnabled or a configureModule call
\* changes them.
C17_ReadsLeaveRegistry ==
    [][completion'.op \notin {"setModuleEnabled", "configureModule"}
          => UNCHANGED <<complianceModules, enabledModules>>]_vars

\* C17 witness: getAvailableModules has returned while a checkCompliance
\* call that has seen a module fail is suspended.
C17_Witness ==
    /\ completion.op = "getAvailableModules"
    /\ ~completion.threw
    /\ completion.value = RegisteredNames
    /\ InFlight(1)
    /\ \E i \in DOMAIN round[1].log : round[1].log[i].failed
    /\ enabledModules # <<>>


---------------------------------------------------------------------------
\* C18: a module whose analysis raised an error returns compliant = false
\* with a single violation, of type ANALYSIS_ERROR and severity MEDIUM.
AnalysisErrors(result) ==
    SelectSeq(result.violations, LAMBDA v : v.type = "ANALYSIS_ERROR")

C18_SingleAnalysisError ==
    (analysis.module # "none" /\ AnalysisErrors(analysis.result) # <<>>)
        => /\ ~analysis.result.compliant
           /\ analysis.result.violations
                 = <<Violation("ANALYSIS_ERROR", "MEDIUM")>>

\* C19: one threshold agrees with every result a module has returned.
C19_OneThreshold ==
    analysis.module # "none" => analysis.thresholds # {}


\* C20: when every module call completes, a started round returns its
\* report, however many modules fail: the step that ends a round's last wait
\* leaves the round returned.
C20_RoundReturns ==
    [][\A r \in RoundIds :
          (InFlight(r) /\ round'[r].pc # "awaiting") => round'[r].pc = "returned"]_vars


\* C21: a round that overlapped another round on an engine nothing
\* reconfigures settles as it would alone on its own content: the same
\* report, or the same rejection.
AloneOn(r) == RunAlone(enabledModules, complianceModules, round[r].content)

C21_OverlapIsolated ==
    \A r \in RoundIds :
        (Settled(r) /\ round[r].overlapped) =>
            /\ round[r].pc = AloneOn(r).pc
            /\ Report(r) = AloneOn(r).results

C21_Witness ==
    /\ Returned(1) /\ round[1].overlapped
    /\ Returned(2) /\ round[2].overlapped
    /\ round[1].content # round[2].content
    /\ Report(1).summary.totalViolations > 0
    /\ Report(2).summary.totalViolations > 0
    /\ Len(Report(1).keys) = 2


\* C22: a round invokes the registered names of the array it iterates one
\* at a time and in the array's order (a step of the round invokes the next
\* names of the array, and only the last module invoked can be pending), and
\* the keys of moduleResults are in the order of the invocations.
Invoked(st) == [i \in DOMAIN st.log |-> st.log[i].name]

RegisteredIn(s) == SelectSeq(s, LAMBDA n : n \in DOMAIN complianceModules)

Completed(st) ==
    IF st.pc = "returned" THEN Invoked(st)
    ELSE SubSeq(Invoked(st), 1, Len(st.log) - 1)

InsertedInOrder(r) ==
    /\ round[r].results.keys = Dedupe(Completed(round[r]))
    /\ InFlight(r) =>
          /\ round[r].log # <<>>
          /\ round[r].pending.name = round[r].log[Len(round[r].log)].name

InvokedInOrder(r) ==
    LET before == IF InFlight(r) THEN Invoked(round[r]) ELSE <<>>
        array == IF InFlight(r) THEN IteratedArray(round[r]) ELSE enabledModules
        from == IF InFlight(r) THEN round[r].idx ELSE 0
        Upto(k) == before \o RegisteredIn(SubSeq(array, from + 1, k))
        after == round'[r]
    IN after # round[r] =>
          CASE after.pc = "awaiting" -> Invoked(after) = Upto(after.idx)
            [] after.pc = "returned" -> Invoked(after) = Upto(Len(array))
            [] after.pc = "rejected" ->
                  \E k \in from..Len(array) : Invoked(after) = Upto(k)
            [] OTHER -> after.log = <<>>

C22_OneAtATimeInOrder ==
    /\ [](\A r \in RoundIds : InsertedInOrder(r))
    /\ [][\A r \in RoundIds : InvokedInOrder(r)]_vars

C22_Witness ==
    /\ Returned(1)
    /\ Len(round[1].log) = 3
    /\ round[1].results.keys = <<"hipaa", "cafe">>
    /\ \E i \in DOMAIN round[1].log : round[1].log[i].failed


\* C23: when the constructor throws on config, configureModule throws the
\* error at its caller and leaves the module map and the enabled array as
\* they were; a round run afterwards ends as it would have ended before.
C23_FailedConfigureFrame ==
    [][\A name \in Modules :
          ConfigureModule(name, InvalidConfig) =>
              /\ completion' = Abrupt("configureModule", "TypeError")
              /\ complianceModules' = complianceModules
              /\ enabledModules' = enabledModules
              /\ \A content \in Contents :
                    RunAlone(enabledModules', complianceModules', content)
                        = RunAlone(enabledModules, complianceModules, content)]_vars

C23_Witness ==
    /\ completion = Abrupt("configureModule", "TypeError")
    /\ \E name \in Modules : complianceModules[name].config = "custom"
    /\ InFlight(1)
    /\ enabledModules # <<>>


\* C24: setModuleEnabled keeps an enabled array without repetitions free of
\* them: enabling a name the array holds leaves the array as it is, and
\* after disabling a name the array holds it nowhere.
NoDuplicates(s) == \A i, j \in DOMAIN s : s[i] = s[j] => i = j

C24_NoDuplicatesKept ==
    [][completion'.op = "setModuleEnabled" =>
          /\ NoDuplicates(enabledModules) => NoDuplicates(enabledModules')
          /\ Len(enabledModules') > Len(enabledModules) =>
                \E name \in AllNames \ Range(enabledModules) :
                    enabledModules' = Append(enabledModules, name)
          /\ Len(enabledModules') = Len(enabledModules) =>
                enabledModules' = enabledModules
          /\ Len(enabledModules') < Len(enabledModules) =>
                \E name \in Range(enabledModules) \ Range(enabledModules') :
                    enabledModules' =
                        SelectSeq(enabledModules, LAMBDA m : m # name)]_vars

C24_Witness ==
    /\ completion.op = "setModuleEnabled"
    /\ NoDuplicates(enabledModules)
    /\ Len(enabledModules) = 3
    /\ \E name \in Modules : lastSet[name] = "reenabled"


\* C25: two engines that differ in failOnAnyViolation only, put through the
\* same calls, are always at the same point of a call with the same report.
C25_FlagIgnored ==
    /\ round[1].pc = round[2].pc
    /\ Report(1) = Report(2)

\* overallCompliant = true with totalViolations > 0, on the engine with the
\* flag set and on its twin
C25_Witness ==
    /\ failOnAnyViolation /\ ~FlagOf(2)
    /\ Returned(1) /\ Returned(2)
    /\ Report(1).overallCompliant /\ Report(1).summary.totalViolations > 0
    /\ Report(2).overallCompliant /\ Report(2).summary.totalViolations > 0

=============================================================================
